---- MODULE Spec2Model ----
(***************************************************************************)
(* Train delay notifier: status classification, aggregation and the        *)
(* notification decision, for the three entry points of the repository:    *)
(*   "smtp"   src/src/index.ts            (nodemailer, two direct scrapers)*)
(*   "script" src/unnamed/part_001:1-304  (Yahoo transit + Resend API)     *)
(*   "worker" src/unnamed/part_001:306-499 (Cloudflare Worker version)     *)
(*                                                                         *)
(* Strings are sequences of characters.  A Japanese character is written   *)
(* as its romanised reading, e.g. "chi","en" is the two-character string   *)
(* 遅延; String.includes and RegExp.test are substring searches over these *)
(* sequences.                                                              *)
(***************************************************************************)
EXTENDS Naturals, Sequences, FiniteSets, TLC

VARIABLES
    variant,      \* which entry point runs
    mailEnv,      \* TRUE iff the mail credentials / recipient are all set
    pc,           \* position of main / checkTrainDelays
    task,         \* per line: the promise returned by its check function
    response,     \* per line: what the retrieval collaborator answered (until the join)
    values,       \* the array Promise.all fills, one slot per input promise
    result,       \* the CheckResult (hasDelay, lines) once aggregated
    settled,      \* the lines in the order their retrievals settled
    sent,         \* the payloads handed to the send collaborator, in order
    sendAnswer,   \* how the send collaborator answered: "none" until it does
    logged,       \* the set of console messages written so far
    returned      \* the summary string returned by checkTrainDelays

vars == <<variant, mailEnv, pc, task, response, values, result, settled, sent,
          sendAnswer, logged, returned>>

-----------------------------------------------------------------------------
(* Bounds *)

\* a page holds at most this many elements
MaxElems == 2

\* the body of a non-ok response holds at most this many elements
MaxErrorElems == 1

-----------------------------------------------------------------------------
(* Strings *)

Concat(ss) ==
    LET RECURSIVE Go(_)
        Go(i) == IF i > Len(ss) THEN <<>> ELSE ss[i] \o Go(i + 1)
    IN Go(1)

\* String.prototype.includes
Includes(s, k) ==
    \E i \in 1..(Len(s) + 1) : i + Len(k) - 1 <= Len(s) /\ SubSeq(s, i, i + Len(k) - 1) = k

\* RegExp alternation of literals, .test(s)
TestAny(alts, s) == \E i \in 1..Len(alts) : Includes(s, alts[i])

\* String.prototype.substring(0, n)
Substring0(s, n) == IF Len(s) <= n THEN s ELSE SubSeq(s, 1, n)

\* keywords
K_chien        == <<"chi", "en">>                          \* 遅延
K_okure        == <<"oku", "re">>                          \* 遅れ
K_untenmiai    == <<"un", "ten", "mi", "ai">>              \* 運転見合
K_unkyu        == <<"un", "kyu">>                          \* 運休
K_toriyame     == <<"un", "ten", "to", "ri", "ya", "me">>  \* 運転取りやめ
K_orikaeshi    == <<"ori", "kae", "shi", "un", "ten">>     \* 折返し運転
K_chokutsu     == <<"choku", "tsuu", "un", "ten", "chuu", "tome">> \* 直通運転中止
K_daiyamidare  == <<"DA", "I", "YA", "mida", "re">>        \* ダイヤ乱れ
K_heijounten   == <<"hei", "jou", "un", "ten">>            \* 平常運転
K_heijodoori   == <<"hei", "jou", "do", "o", "ri">>        \* 平常どおり
K_tsujounkou   == <<"tsuu", "jou", "un", "kou">>           \* 通常運行
K_miai         == <<"mi", "ai">>                           \* 見合
\* 現在､事故･遅延に関する情報はありません
K_noinfo       == <<"gen", "zai", ",", "ji", "ko", ".", "chi", "en", "ni", "kan",
                    "su", "ru", "jo2", "hou", "ha", "a", "ri", "ma", "se", "n">>

-----------------------------------------------------------------------------
(* Pages.  A page is a flat sequence of elements; its HTML is the          *)
(* concatenation of <cls>text</cls>.  The class of an element stands for   *)
(* its class attribute ("p": none).                                        *)

Elem(cls, txt) == [cls |-> cls, txt |-> txt]

\* what the operators' pages (index.ts) are made of
OperatorElements ==
    { Elem("p", K_untenmiai \o <<"wa", "se">>),  \* 運転見合わせ
      Elem("p", K_heijounten),                   \* 平常運転
      Elem("info", <<"oshirase">>),              \* <div class="info">お知らせ</div>
      Elem("trouble", K_chien) }                 \* <div class="trouble">遅延</div>

\* what the Yahoo transit pages (part_001) are made of
YahooElements ==
    { Elem("p", K_untenmiai \o <<"wa", "se">>),  \* 運転見合わせ
      Elem("p", K_heijounten),                   \* 平常運転
      Elem("p", K_noinfo),                       \* the "no incident" notice
      Elem("trouble", K_chien) }                 \* <div class="trouble">遅延</div>

Elements(v) == IF v = "smtp" THEN OperatorElements ELSE YahooElements

SeqsUpTo(S, n) == UNION { [1..k -> S] : k \in 0..n }

Pages(v) == SeqsUpTo(Elements(v), MaxElems)

ErrorPages(v) == SeqsUpTo(Elements(v), MaxErrorElems)

OpenTag(cls)  == <<"<", cls, ">">>
CloseTag(cls) == <<"<", "/", cls, ">">>

Html(page) ==
    Concat([i \in 1..Len(page) |->
              OpenTag(page[i].cls) \o page[i].txt \o CloseTag(page[i].cls)])

\* index of the first ">" at or after i, 0 if none
NextGt(h, i) ==
    IF \E j \in i..Len(h) : h[j] = ">"
    THEN CHOOSE j \in i..Len(h) : h[j] = ">" /\ \A k \in i..(j - 1) : h[k] # ">"
    ELSE 0

\* index of the first "<" at or after i, Len(h) + 1 if none
NextLt(h, i) ==
    IF \E j \in i..Len(h) : h[j] = "<"
    THEN CHOOSE j \in i..Len(h) : h[j] = "<" /\ \A k \in i..(j - 1) : h[k] # "<"
    ELSE Len(h) + 1

\* every <...> span replaced by sep
ReplaceTagSpans(h, sep) ==
    LET RECURSIVE Go(_)
        Go(i) ==
            IF i > Len(h) THEN <<>>
            ELSE IF h[i] = "<" /\ NextGt(h, i) # 0
                 THEN sep \o Go(NextGt(h, i) + 1)
                 ELSE <<h[i]>> \o Go(i + 1)
    IN Go(1)

\* .replace(/\s+/g, ' ')
CollapseWhitespace(s) ==
    LET RECURSIVE Go(_)
        Go(i) ==
            IF i > Len(s) THEN <<>>
            ELSE IF s[i] = " "
                 THEN IF i > 1 /\ s[i - 1] = " " THEN Go(i + 1) ELSE <<" ">> \o Go(i + 1)
                 ELSE <<s[i]>> \o Go(i + 1)
    IN Go(1)

\* String.prototype.trim
Trim(s) ==
    LET nonws == { i \in 1..Len(s) : s[i] # " " }
    IN IF nonws = {} THEN <<>>
       ELSE SubSeq(s, CHOOSE i \in nonws : \A j \in nonws : i <= j,
                      CHOOSE i \in nonws : \A j \in nonws : i >= j)

\* the worker's tag stripping
WorkerTextContent(html) == CollapseWhitespace(ReplaceTagSpans(html, <<" ">>))

\* cheerio: $('body').text()
BodyText(html) == ReplaceTagSpans(html, <<>>)

\* cheerio: the elements of the document, in document order
ParseElems(h) ==
    LET RECURSIVE Go(_)
        Go(i) ==
            IF i > Len(h) THEN <<>>
            ELSE IF h[i] = "<" /\ i + 2 <= Len(h) /\ h[i + 1] # "/" /\ h[i + 2] = ">"
                 THEN LET j == NextLt(h, i + 3)
                      IN <<Elem(h[i + 1], SubSeq(h, i + 3, j - 1))>> \o Go(j)
                 ELSE Go(i + 1)
    IN Go(1)

\* cheerio: $(selector).text(), the text of all matched elements
SelectText(html, classes) ==
    LET es == ParseElems(html)
    IN Concat([i \in 1..Len(es) |-> IF es[i].cls \in classes THEN es[i].txt ELSE <<>>])

\* cheerio: $(selector).first().text()
SelectFirstText(html, classes) ==
    LET es == ParseElems(html)
        hit == { i \in 1..Len(es) : es[i].cls \in classes }
    IN IF hit = {} THEN <<>> ELSE es[CHOOSE i \in hit : \A j \in hit : i <= j].txt

-----------------------------------------------------------------------------
(* Lines and the retrieval collaborator's answers *)

Lines == {"keiyo", "hibiya"}

Variants == {"smtp", "script", "worker"}

\* name of a line (京葉線, 日比谷線)
LineName(l) == IF l = "keiyo" THEN "Keiyo-sen" ELSE "Hibiya-sen"

\* operator of a line (JR東日本, 東京メトロ)
Operator(l) == IF l = "keiyo" THEN "JR-Higashi-Nihon" ELSE "Tokyo-Metro"

\* fetch() rejected: no response at all
FetchRejected == [settled |-> "rejected", ok |-> FALSE, status |-> "none", body |-> <<>>]

\* fetch() resolved with a response; ok is response.ok
FetchResolved(ok, page) ==
    [settled |-> "fulfilled", ok |-> ok, status |-> IF ok THEN "200" ELSE "503",
     body |-> Html(page)]

ResponsesFrom(pages, errorPages) ==
    {FetchRejected}
        \cup { FetchResolved(TRUE, page) : page \in pages }
        \cup { FetchResolved(FALSE, page) : page \in errorPages }

OperatorResponses == ResponsesFrom(Pages("smtp"), ErrorPages("smtp"))

YahooResponses == ResponsesFrom(Pages("worker"), ErrorPages("worker"))

\* what the retrieval collaborator can answer to entry point v
Responses(v) == IF v = "smtp" THEN OperatorResponses ELSE YahooResponses

NoResponse == [settled |-> "pending"]

LineStatus(l, status, message) ==
    [lineName |-> LineName(l), operator |-> Operator(l), status |-> status,
     message |-> message]

\* outcomes of a promise
Pending        == [state |-> "pending"]
Fulfilled(v)   == [state |-> "fulfilled", value |-> v]
Rejected(e)    == [state |-> "rejected", value |-> e]

\* the index of the first keyword, in list order, that the text includes; 0 if none
FirstMatch(keywords, text) ==
    IF \E i \in 1..Len(keywords) : Includes(text, keywords[i])
    THEN CHOOSE i \in 1..Len(keywords) :
            /\ Includes(text, keywords[i])
            /\ \A j \in 1..(i - 1) : ~Includes(text, keywords[j])
    ELSE 0

-----------------------------------------------------------------------------
(* src/src/index.ts: the two direct checkers *)

KeiyoDelayKeywords  == <<K_chien, K_okure, K_untenmiai, K_unkyu, K_toriyame, K_orikaeshi>>
KeiyoNormalKeywords == <<K_heijounten, K_heijodoori>>

HibiyaDelayKeywords  == <<K_chien, K_okure, K_untenmiai, K_unkyu, K_orikaeshi, K_chokutsu>>
HibiyaNormalKeywords == <<K_heijounten, K_heijodoori, K_tsujounkou>>

\* keyword.includes('運休') || keyword.includes('見合') ? 'suspended' : 'delayed'
Severity(keyword) ==
    IF Includes(keyword, K_unkyu) \/ Includes(keyword, K_miai) THEN "suspended" ELSE "delayed"

\* `${keyword}が発生しています`
OccurringMessage(keyword) == keyword \o <<"ga-hassei-shiteimasu">>

\* `チェック失敗: ${error.message}`
CheckFailedMessage(err) == <<"check-shippai: ">> \o err

\* the Error thrown inside the try block, or "none"
FetchError(r) ==
    IF r.settled = "rejected" THEN <<"fetch failed">>
    ELSE IF ~r.ok THEN <<"HTTP ", r.status>>
    ELSE <<>>

\* the normal keywords scanned before the disruption keywords
KeiyoClassify_NormalFirst(html) ==
    LET statusText == BodyText(html)
        d == FirstMatch(KeiyoDelayKeywords, statusText)
        n == FirstMatch(KeiyoNormalKeywords, statusText)
    IN IF n # 0
       THEN [status |-> "normal", message |-> K_heijounten]
       ELSE IF d # 0
       THEN [status |-> Severity(KeiyoDelayKeywords[d]),
             message |-> OccurringMessage(KeiyoDelayKeywords[d])]
       ELSE [status |-> "unknown", message |-> <<"status-fumei (page structure changed?)">>]

\* lines 69-108: status and message from the page
KeiyoClassify(html) ==
    LET statusText == BodyText(html)
        d == FirstMatch(KeiyoDelayKeywords, statusText)
        n == FirstMatch(KeiyoNormalKeywords, statusText)
        info == Trim(SelectFirstText(html, {"info", "delay-info", "status"}))
    IN IF d # 0
       THEN [status |-> Severity(KeiyoDelayKeywords[d]),
             message |-> IF info # <<>> THEN info
                         ELSE OccurringMessage(KeiyoDelayKeywords[d])]
       ELSE IF n # 0
       THEN [status |-> "normal", message |-> K_heijounten]
       ELSE [status |-> "unknown", message |-> <<"status-fumei (page structure changed?)">>]

\* lines 147-182
HibiyaClassify(html) ==
    LET statusText == BodyText(html)
        d == FirstMatch(HibiyaDelayKeywords, statusText)
        n == FirstMatch(HibiyaNormalKeywords, statusText)
    IN IF d # 0
       THEN [status |-> Severity(HibiyaDelayKeywords[d]),
             message |-> OccurringMessage(HibiyaDelayKeywords[d])]
       ELSE IF n # 0
       THEN [status |-> "normal", message |-> K_heijounten]
       ELSE [status |-> "normal", message |-> <<"unkou-jouhou nashi (no delay of 15 min or more)">>]

CheckKeiyoLine_NoCatch(r) ==
    IF FetchError(r) # <<>>
    THEN Rejected(FetchError(r))
    ELSE LET c == KeiyoClassify(r.body)
         IN Fulfilled(LineStatus("keiyo", c.status, c.message))

CheckKeiyoLine(r) ==
    IF FetchError(r) # <<>>
    THEN Fulfilled(LineStatus("keiyo", "unknown", CheckFailedMessage(FetchError(r))))
    ELSE LET c == KeiyoClassify(r.body)
         IN Fulfilled(LineStatus("keiyo", c.status, c.message))

CheckHibiyaLine(r) ==
    IF FetchError(r) # <<>>
    THEN Fulfilled(LineStatus("hibiya", "unknown", CheckFailedMessage(FetchError(r))))
    ELSE LET c == HibiyaClassify(r.body)
         IN Fulfilled(LineStatus("hibiya", c.status, c.message))

-----------------------------------------------------------------------------
(* src/unnamed/part_001: the Yahoo transit checkers *)

YahooDelayPattern == <<K_chien, K_okure, K_untenmiai, K_unkyu, K_daiyamidare>>

\* `检查失败: ${error}`
YahooFailedMessage(err) == <<"jiancha-shibai: ">> \o err

\* the length the message is cut to
MessageMax == 300

\* lines 166-188 (script): status and message from the page
ScriptYahooClassify(html) ==
    LET trouble == SelectText(html, {"trouble"})
        statusArea == IF trouble # <<>> THEN trouble ELSE BodyText(html)
        hasDelay == TestAny(YahooDelayPattern, statusArea)
        isNormal == Includes(statusArea, K_heijounten) \/ Includes(statusArea, K_noinfo)
    IN IF hasDelay /\ ~isNormal
       THEN [status |-> "delayed", message |-> Substring0(statusArea, MessageMax)]
       ELSE [status |-> "normal", message |-> K_heijounten]

\* the first match of /(.*?(?:k1|k2|...).*?)(?:\s{2,}|$)/ in s, group 1; the text
\* has no line terminators here
WorkerDelayMatch(s) ==
    LET ends == { e \in 1..Len(s) :
                    /\ TestAny(YahooDelayPattern, SubSeq(s, 1, e))
                    /\ \/ e = Len(s)
                       \/ e + 2 <= Len(s) /\ s[e + 1] = " " /\ s[e + 2] = " " }
    IN SubSeq(s, 1, CHOOSE e \in ends : \A f \in ends : e <= f)

\* lines 346-371 (worker)
WorkerYahooClassify(html) ==
    LET textContent == WorkerTextContent(html)
        hasDelay == TestAny(YahooDelayPattern, textContent)
        isNormal == Includes(textContent, K_heijounten) \/ Includes(textContent, K_noinfo)
    IN IF hasDelay /\ ~isNormal
       THEN [status |-> "delayed",
             message |-> Substring0(WorkerDelayMatch(textContent), MessageMax)]
       ELSE [status |-> "normal", message |-> K_heijounten]

\* script, lines 151-199: response.ok is never read
ScriptCheckYahooTransit(lineKey, r) ==
    IF r.settled = "rejected"
    THEN Fulfilled(LineStatus(lineKey, "unknown", YahooFailedMessage(<<"TypeError: fetch failed">>)))
    ELSE LET c == ScriptYahooClassify(r.body)
         IN Fulfilled(LineStatus(lineKey, c.status, c.message))

WorkerCheckYahooTransit_NoCatch(lineKey, r) ==
    IF r.settled = "rejected"
    THEN Rejected(<<"TypeError: fetch failed">>)
    ELSE LET c == WorkerYahooClassify(r.body)
         IN Fulfilled(LineStatus(lineKey, c.status, c.message))

\* worker, lines 332-382
WorkerCheckYahooTransit(lineKey, r) ==
    IF r.settled = "rejected"
    THEN Fulfilled(LineStatus(lineKey, "unknown", YahooFailedMessage(<<"TypeError: fetch failed">>)))
    ELSE LET c == WorkerYahooClassify(r.body)
         IN Fulfilled(LineStatus(lineKey, c.status, c.message))

\* the check function each entry point runs for a line
CheckLine(v, l, r) ==
    CASE v = "smtp" /\ l = "keiyo"  -> CheckKeiyoLine(r)
      [] v = "smtp" /\ l = "hibiya" -> CheckHibiyaLine(r)
      [] v = "script"               -> ScriptCheckYahooTransit(l, r)
      [] v = "worker"               -> WorkerCheckYahooTransit(l, r)

\* CheckLine tabulated over the answers the collaborator can give
CheckTable ==
    [x \in UNION { {v} \X Lines \X Responses(v) : v \in Variants } |->
        CheckLine(x[1], x[2], x[3])] @@ <<>>

-----------------------------------------------------------------------------
(* Aggregation *)

\* the configured lines, in configuration order
ConfigLines(v) == IF v = "smtp" THEN <<"keiyo", "hibiya">> ELSE <<"hibiya", "keiyo">>

\* the check calls in the array handed to Promise.all, in array order
AllInputs(v) == IF v = "smtp" THEN <<"keiyo", "hibiya">> ELSE <<"hibiya", "keiyo">>

NumLines == Cardinality(Lines)

Empty == [state |-> "empty"]

\* position of line l in the array handed to Promise.all
InputIndex(v, l) == CHOOSE i \in 1..Len(AllInputs(v)) : AllInputs(v)[i] = l

\* values pushed in the order the inputs settle
PromiseAllResolve_Push(vals, i, value) ==
    LET free == { k \in 1..Len(vals) : vals[k] = Empty }
    IN [vals EXCEPT ![CHOOSE k \in free : \A j \in free : k <= j] = value]

\* Promise.all: the value of the input at index i is stored at index i
PromiseAllResolve(vals, i, value) == [vals EXCEPT ![i] = value]

\* Promise.all settles once every input is fulfilled, or as soon as one is rejected
PromiseAllSettled(t) ==
    \/ \A l \in Lines : t[l].state = "fulfilled"
    \/ \E l \in Lines : t[l].state = "rejected"

IsDisrupted_DelayedOnly(v, status) == status = "delayed"

IsDisrupted(v, status) ==
    IF v = "smtp" THEN status \in {"delayed", "suspended"} ELSE status = "delayed"

\* some() testing for anything but normal, filter() unchanged
HasDelay_NotNormal(v, lines) == \E i \in 1..Len(lines) : lines[i].status # "normal"

\* lines.some(...)
HasDelay(v, lines) == \E i \in 1..Len(lines) : IsDisrupted(v, lines[i].status)

NoResult == [hasDelay |-> FALSE, lines |-> <<>>, built |-> FALSE]

CheckResult(v, lines) == [hasDelay |-> HasDelay(v, lines), lines |-> lines, built |-> TRUE]

-----------------------------------------------------------------------------
(* Notification *)

\* the filter left out
DelayedLines_All(v, lines) == lines

\* lines.filter(...)
DelayedLines(v, lines) ==
    LET RECURSIVE Go(_)
        Go(i) == IF i > Len(lines) THEN <<>>
                 ELSE IF IsDisrupted(v, lines[i].status)
                      THEN <<lines[i]>> \o Go(i + 1) ELSE Go(i + 1)
    IN Go(1)

\* names.join(', ')
JoinComma(names) ==
    LET RECURSIVE Go(_)
        Go(i) == IF i > Len(names) THEN <<>>
                 ELSE IF i = 1 THEN <<names[i]>> \o Go(i + 1)
                 ELSE <<", ", names[i]>> \o Go(i + 1)
    IN Go(1)

StatusEmoji(status) ==
    CASE status = "normal"    -> "check-mark"
      [] status = "delayed"   -> "warning"
      [] status = "suspended" -> "no-entry"
      [] OTHER                -> "question"

Names(lines) == [i \in 1..Len(lines) |-> lines[i].lineName]

\* index.ts sendEmail, lines 243-304: the argument of transporter.sendMail
SmtpPayload(res) ==
    [from    |-> "SMTP_USER",
     to      |-> "NOTIFY_EMAIL",
     subject |-> <<"densha-chien-alert: ">> \o JoinComma(Names(DelayedLines("smtp", res.lines))),
     text    |-> [i \in 1..Len(res.lines) |->
                    [emoji |-> StatusEmoji(res.lines[i].status),
                     lineName |-> res.lines[i].lineName,
                     operator |-> res.lines[i].operator,
                     message |-> res.lines[i].message]],
     html    |-> [i \in 1..Len(res.lines) |->
                    [class |-> IF res.lines[i].status = "normal" THEN "line-status normal"
                               ELSE "line-status",
                     emoji |-> StatusEmoji(res.lines[i].status),
                     lineName |-> res.lines[i].lineName,
                     operator |-> res.lines[i].operator,
                     message |-> res.lines[i].message]]]

\* part_001 sendEmail: the JSON body POSTed to api.resend.com/emails
ResendPayload(v, delays) ==
    LET delayedLines == DelayedLines(v, delays)
    IN [from    |-> "FROM_EMAIL",
        to      |-> "TO_EMAIL",
        subject |-> <<"densha-chien-tsuuchi: ">> \o JoinComma(Names(delayedLines)),
        html    |-> [i \in 1..Len(delayedLines) |->
                       [operator |-> delayedLines[i].operator,
                        lineName |-> delayedLines[i].lineName,
                        message |-> delayedLines[i].message]]]

Payload(v, res) == IF v = "smtp" THEN SmtpPayload(res) ELSE ResendPayload(v, res.lines)

ShouldSend_Always(res) == TRUE

\* main: if (result.hasDelay) / if (hasDelays)
ShouldSend(res) == res.hasDelay

SendEmailReturnsEarly_Never(v, env, res) == FALSE

\* sendEmail returns before the send: incomplete settings, or (Resend) no delayed line
SendEmailReturnsEarly(v, env, res) ==
    \/ ~env
    \/ v # "smtp" /\ Len(DelayedLines(v, res.lines)) = 0

\* how the send collaborator can answer: sendMail resolves or rejects; the
\* Resend POST resolves ok, resolves not ok, or rejects
SendOutcomes(v) == IF v = "smtp" THEN {"ok", "throw"} ELSE {"ok", "notok", "throw"}

\* does sendEmail reject when the collaborator answers o
SendEmailRejects(v, o) == v = "smtp" /\ o = "throw"

\* the string checkTrainDelays returns
Summary(v, res) ==
    IF v # "worker" THEN <<"void">>
    ELSE IF res.hasDelay
         THEN <<"Delays detected: ">> \o JoinComma(Names(DelayedLines(v, res.lines)))
         ELSE <<"All lines running normally">>

-----------------------------------------------------------------------------
(* The run *)

Init ==
    /\ variant \in Variants
    /\ mailEnv \in BOOLEAN
    /\ pc = "start"
    /\ task = [l \in Lines |-> [state |-> "idle"]]
    /\ response = [l \in Lines |-> NoResponse]
    /\ values = [i \in 1..NumLines |-> Empty]
    /\ result = NoResult
    /\ settled = <<>>
    /\ sent = <<>>
    /\ sendAnswer = "none"
    /\ logged = {}
    /\ returned = <<>>

\* Promise.all([checkA(), checkB()]): both check functions are called and each
\* suspends at its fetch
StartChecks ==
    /\ pc = "start"
    /\ pc' = "awaitAll"
    /\ task' = [l \in Lines |-> Pending]
    /\ logged' = logged \cup {"checking"}
    /\ UNCHANGED <<variant, mailEnv, response, values, result, sent, returned, settled, sendAnswer>>

\* the fetch of line l settles with r; the check function of l runs to its return
FetchSettle(l, r) ==
    /\ pc = "awaitAll"
    /\ task[l].state = "pending"
    /\ response' = [response EXCEPT ![l] = r]
    /\ settled' = Append(settled, l)
    /\ LET out == CheckTable[<<variant, l, r>>]
       IN /\ task' = [task EXCEPT ![l] = out]
          /\ values' = IF out.state = "fulfilled"
                       THEN PromiseAllResolve(values, InputIndex(variant, l), out.value)
                       ELSE values
    /\ UNCHANGED <<variant, mailEnv, pc, result, sent, logged, returned, sendAnswer>>

\* await Promise.all(...) resumes; the result is built and printed.  The check
\* functions have returned: their responses are out of scope from here on.
Join ==
    /\ pc = "awaitAll"
    /\ PromiseAllSettled(task)
    /\ IF \E l \in Lines : task[l].state = "rejected"
       THEN /\ pc' = "rejected"
            /\ logged' = logged \cup {"uncaught"}
            /\ UNCHANGED result
       ELSE /\ pc' = "decide"
            /\ result' = CheckResult(variant, values)
            /\ logged' = logged \cup {"results"}
    /\ response' = [l \in Lines |-> NoResponse]
    /\ UNCHANGED <<variant, mailEnv, task, values, settled, sent, sendAnswer, returned>>

\* if (!hasDelay): nothing is sent
NoDelay ==
    /\ pc = "decide"
    /\ ~ShouldSend(result)
    /\ pc' = "finish"
    /\ logged' = logged \cup {"no-delay"}
    /\ UNCHANGED <<variant, mailEnv, task, response, values, result, sent, returned, settled, sendAnswer>>

\* sendEmail is entered and returns before the send
SendEmailSkip ==
    /\ pc = "decide"
    /\ ShouldSend(result)
    /\ SendEmailReturnsEarly(variant, mailEnv, result)
    /\ pc' = "finish"
    /\ logged' = logged \cup {"sending", "send-skipped"}
    /\ UNCHANGED <<variant, mailEnv, task, response, values, result, sent, returned, settled, sendAnswer>>

\* sendEmail is entered and hands the payload to the send collaborator
SendEmailInvoke ==
    /\ pc = "decide"
    /\ ShouldSend(result)
    /\ ~SendEmailReturnsEarly(variant, mailEnv, result)
    /\ sent' = Append(sent, Payload(variant, result))
    /\ pc' = "sending"
    /\ logged' = logged \cup {"sending"}
    /\ UNCHANGED <<variant, mailEnv, task, response, values, result, returned, settled, sendAnswer>>

\* the send collaborator answers
SendSettle(o) ==
    /\ pc = "sending"
    /\ o \in SendOutcomes(variant)
    /\ sendAnswer' = o
    /\ IF SendEmailRejects(variant, o)
       THEN /\ pc' = "rejected"
            /\ logged' = logged \cup {"uncaught"}
       ELSE /\ pc' = "finish"
            /\ logged' = logged \cup {IF o = "ok" THEN "send-ok" ELSE "send-failed"}
    /\ UNCHANGED <<variant, mailEnv, task, response, values, result, sent, returned, settled>>

\* the end of main / the return of checkTrainDelays
Finish ==
    /\ pc = "finish"
    /\ pc' = "done"
    /\ logged' = IF variant = "smtp" THEN logged \cup {"complete"} ELSE logged
    /\ returned' = Summary(variant, result)
    /\ UNCHANGED <<variant, mailEnv, task, response, values, result, sent, settled, sendAnswer>>

Next ==
    \/ StartChecks
    \/ \E l \in Lines, r \in Responses(variant) : FetchSettle(l, r)
    \/ Join
    \/ NoDelay
    \/ SendEmailSkip
    \/ SendEmailInvoke
    \/ \E o \in {"ok", "notok", "throw"} : SendSettle(o)
    \/ Finish

Spec == Init /\ [][Next]_vars

\* every pending retrieval and send is eventually answered, and every
\* continuation that can run does
LiveSpec == Spec /\ WF_vars(Next)

TypeOK ==
    /\ variant \in Variants
    /\ mailEnv \in BOOLEAN
    /\ pc \in {"start", "awaitAll", "decide", "sending", "finish", "done", "rejected"}
    /\ Len(sent) <= 1

-----------------------------------------------------------------------------
(* Properties *)

Ended == pc \in {"done", "rejected"}

Statuses(lines) == { lines[i].status : i \in 1..Len(lines) }

\* the line's check has returned a LineStatus
Checked(l) == task[l].state = "fulfilled"

\* a response arrived for l and it was a success response
Retrieved(l) == response[l].settled = "fulfilled" /\ response[l].ok

\* C1: in every CheckResult the notification flag is true iff at least one
\* LineStatus in it is delayed or suspended.
C1_FlagIffDisrupted ==
    result.built =>
        (result.hasDelay <=> Statuses(result.lines) \cap {"delayed", "suspended"} # {})

\* a result whose only disruption is a suspension, flag raised ...
C1_Witness ==
    /\ result.built /\ result.hasDelay
    /\ "suspended" \in Statuses(result.lines)
    /\ "delayed" \notin Statuses(result.lines)

\* C2: while the notification flag is false nothing is handed to the send
\* collaborator, at any point of the run.
C2_NoSendWithoutFlag ==
    (~result.hasDelay) => (sent = <<>> /\ pc # "sending" /\ sendAnswer = "none")

\* a run that ended with the flag false after one retrieval failed
C2_Witness ==
    /\ pc = "done" /\ result.built /\ ~result.hasDelay /\ sent = <<>>
    /\ Statuses(result.lines) = {"unknown", "normal"}

\* C3 as stated: in a run whose flag is true the send collaborator is invoked
\* exactly once, with subject, plain-text body, rich-text body and recipient.
C3_ExactlyOnceComplete ==
    (Ended /\ result.hasDelay) =>
        /\ Len(sent) = 1
        /\ {"subject", "text", "html", "to"} \subseteq DOMAIN sent[1]

\* C3 (amended): the send collaborator is invoked at most once in a run; in a
\* run whose flag is true it is invoked exactly once when the mail settings are
\* complete and not at all when they are not; every payload carries the
\* subject, the rich-text body and the recipient, and the SMTP payload alone
\* carries a plain-text body.
C3_OnceWhenConfigured ==
    /\ Len(sent) <= 1
    /\ (result.hasDelay /\ pc \in {"sending", "finish", "done", "rejected"}) =>
            (Len(sent) = 1 <=> mailEnv)
    /\ \A i \in 1..Len(sent) :
        /\ {"subject", "html", "to"} \subseteq DOMAIN sent[i]
        /\ ("text" \in DOMAIN sent[i]) <=> (variant = "smtp")
        /\ sent[i] = Payload(variant, result)

\* the flag is true, the settings are complete, the one send was answered
C3_Witness ==
    /\ pc = "done" /\ result.hasDelay /\ mailEnv
    /\ Len(sent) = 1 /\ sendAnswer = "notok"

\* C4: a failure of the send collaborator is caught and logged inside
\* sendEmail; the run still reaches its normal completion and the send is not
\* repeated.
C4_SendFailureContained ==
    sendAnswer \in {"notok", "throw"} =>
        /\ pc \in {"finish", "done"}
        /\ "send-failed" \in logged
        /\ Len(sent) = 1

\* the keyword lists a checker is configured with
DisruptionKeywords(v, l) ==
    IF v = "smtp" THEN (IF l = "keiyo" THEN KeiyoDelayKeywords ELSE HibiyaDelayKeywords)
    ELSE YahooDelayPattern

NormalKeywords(v, l) ==
    IF v = "smtp" THEN (IF l = "keiyo" THEN KeiyoNormalKeywords ELSE HibiyaNormalKeywords)
    ELSE <<K_heijounten, K_noinfo>>

\* the text a checker searches for keywords
SearchedText(v, html) ==
    CASE v = "smtp"   -> BodyText(html)
      [] v = "script" -> IF SelectText(html, {"trouble"}) # <<>>
                         THEN SelectText(html, {"trouble"}) ELSE BodyText(html)
      [] v = "worker" -> WorkerTextContent(html)

Other(l) == CHOOSE m \in Lines : m # l

\* C5: when the retrieval of a line throws, the check of that line still
\* returns a LineStatus, with status unknown; the LineStatus of the other line
\* is the one its own response gives (normal for a page with a normal keyword
\* and no disruption keyword); and a result of one unknown and one normal
\* raises no flag and sends nothing.
C5_RetrievalFailureIsolated ==
    /\ \A l \in Lines :
        response[l].settled = "rejected" =>
            /\ Checked(l)
            /\ task[l].value.status = "unknown"
            /\ values[InputIndex(variant, l)] = task[l].value
            /\ LET m == Other(l)
               IN /\ task[m].state \in {"pending", "fulfilled"}
                  /\ Checked(m) =>
                        /\ task[m] = CheckLine(variant, m, response[m])
                        /\ values[InputIndex(variant, m)] = task[m].value
                        /\ ( /\ Retrieved(m)
                             /\ FirstMatch(DisruptionKeywords(variant, m),
                                           SearchedText(variant, response[m].body)) = 0
                             /\ FirstMatch(NormalKeywords(variant, m),
                                           SearchedText(variant, response[m].body)) # 0 )
                           => task[m].value.status = "normal"
    /\ (result.built /\ Statuses(result.lines) = {"unknown", "normal"}) =>
            (~result.hasDelay /\ sent = <<>>)
    /\ pc = "rejected" => sendAnswer = "throw"

\* the retrieval of one line threw, the other line returned a normal page
C5_Witness ==
    \E l \in Lines :
        /\ response[l].settled = "rejected"
        /\ task[l].state = "fulfilled" /\ task[l].value.status = "unknown"
        /\ Retrieved(Other(l))
        /\ task[Other(l)].state = "fulfilled" /\ task[Other(l)].value.status = "normal"
        /\ settled = <<l, Other(l)>>

\* C6: a non-success response makes the line's status unknown, with a message
\* describing the failure; its body is never classified.
C6_NonOkIsUnknown ==
    \A l \in Lines :
        (response[l].settled = "fulfilled" /\ ~response[l].ok) =>
            /\ Checked(l)
            /\ task[l].value.status = "unknown"

\* C7: the LineStatus entries of the result, and the slots Promise.all has
\* filled so far, are in configuration order whichever retrieval settled first.
C7_ConfigurationOrder ==
    /\ \A i \in 1..NumLines :
        values[i] # Empty => values[i].lineName = LineName(ConfigLines(variant)[i])
    /\ result.built =>
        Names(result.lines) = [i \in 1..NumLines |-> LineName(ConfigLines(variant)[i])]

\* a result built after the line configured last was the first to settle,
\* with a failure
C7_Witness ==
    /\ result.built
    /\ settled = <<ConfigLines(variant)[2], ConfigLines(variant)[1]>>
    /\ result.lines[2].status = "unknown"

\* C8: the result is produced only after every configured line check has
\* returned, it holds exactly one LineStatus per configured line, no run gets
\* past the join without it, and every run eventually produces it.
C8_ResultAfterAllChecks ==
    /\ [](result.built =>
            /\ \A l \in Lines : Checked(l)
            /\ Len(result.lines) = NumLines
            /\ \A l \in Lines :
                Cardinality({ i \in 1..Len(result.lines) :
                                result.lines[i] = task[l].value }) = 1)
    /\ [](pc \notin {"start", "awaitAll"} => result.built)
    /\ <>(result.built)

\* a result built although the retrieval of the line that settled first failed
C8_Witness ==
    /\ result.built
    /\ Len(settled) = NumLines
    /\ task[settled[1]].value.status = "unknown"
    /\ task[settled[2]].value.status = "delayed"

\* the text of a successfully retrieved page of line l includes a disruption
\* keyword of the checker's list
HasDisruptionKeyword(l) ==
    /\ Retrieved(l)
    /\ FirstMatch(DisruptionKeywords(variant, l), SearchedText(variant, response[l].body)) # 0

HasNormalKeyword(l) ==
    /\ Retrieved(l)
    /\ FirstMatch(NormalKeywords(variant, l), SearchedText(variant, response[l].body)) # 0

\* C9 as stated: a successfully retrieved text with a disruption keyword is
\* classified delayed or suspended, never normal, also when it has a normal
\* keyword.
C9_DisruptionWins ==
    \A l \in Lines :
        HasDisruptionKeyword(l) =>
            (Checked(l) /\ task[l].value.status \in {"delayed", "suspended"})

\* C9 (amended): checkKeiyoLine and checkHibiyaLine of index.ts classify every
\* successfully retrieved text with a disruption keyword as delayed or
\* suspended, also when it has a normal keyword; checkYahooTransit (both
\* copies) classifies such a text as delayed when it has no normal marker and
\* as normal when it has one.
C9_DisruptionWinsPerSource ==
    \A l \in Lines :
        HasDisruptionKeyword(l) =>
            /\ Checked(l)
            /\ variant = "smtp" => task[l].value.status \in {"delayed", "suspended"}
            /\ variant # "smtp" =>
                   task[l].value.status = IF HasNormalKeyword(l) THEN "normal" ELSE "delayed"

\* index.ts: a text with both a disruption and a normal keyword, not normal
C9_Witness ==
    \E l \in Lines :
        /\ variant = "smtp"
        /\ HasDisruptionKeyword(l) /\ HasNormalKeyword(l)
        /\ task[l].value.status \in {"delayed", "suspended"}

\* C10: when the first disruption keyword, in configured order, that the text
\* includes indicates suspension, the status is suspended, not delayed.
C10_SuspensionIsSuspended ==
    \A l \in Lines :
        ( /\ HasDisruptionKeyword(l)
          /\ LET ks == DisruptionKeywords(variant, l)
             IN ks[FirstMatch(ks, SearchedText(variant, response[l].body))]
                    \in {K_untenmiai, K_unkyu} )
        => (Checked(l) /\ task[l].value.status = "suspended")

\* the status a line falls back to when its text is silent: unknown for
\* Keiyo (JR), normal for Hibiya (Metro, which publishes only delays of 15
\* minutes or more)
ConfiguredDefault(l) == IF l = "keiyo" THEN "unknown" ELSE "normal"

\* a successfully retrieved text of line l with no disruption keyword and no
\* normal keyword
Silent(l) == Retrieved(l) /\ ~HasDisruptionKeyword(l) /\ ~HasNormalKeyword(l)

\* C11: every successfully retrieved text, the empty text included, that has
\* no disruption keyword and no normal keyword is classified as the line's
\* configured default: unknown for Keiyo, normal for Hibiya; the status is a
\* function of the text.
C11_SilentTextIsDefault ==
    \A l \in Lines :
        Silent(l) =>
            /\ Checked(l)
            /\ task[l] = CheckLine(variant, l, response[l])
            /\ task[l].value.status = ConfiguredDefault(l)

\* the names of the lines whose check returned delayed or suspended, in
\* configuration order
DisruptedNames ==
    LET Name(i) == LET l == ConfigLines(variant)[i]
                   IN IF task[l].value.status \in {"delayed", "suspended"}
                      THEN <<LineName(l)>> ELSE <<>>
        RECURSIVE Go(_)
        Go(i) == IF i > NumLines THEN <<>> ELSE Name(i) \o Go(i + 1)
    IN Go(1)

\* the fixed text a subject starts with
SubjectPrefix(v) ==
    IF v = "smtp" THEN "densha-chien-alert: " ELSE "densha-chien-tsuuchi: "

IsName(x) == x # ", "

\* C12: the subject of every dispatched notification is the fixed prefix
\* followed by the names of exactly the lines whose status is delayed or
\* suspended, all of them and no others, in configuration order, with one
\* ", " between two names.
C12_SubjectListsDisruptedLines ==
    \A i \in 1..Len(sent) :
        LET subject == sent[i].subject
            listed  == Tail(subject)
        IN /\ subject[1] = SubjectPrefix(variant)
           /\ SelectSeq(listed, IsName) = DisruptedNames
           /\ Len(listed) = 2 * Len(DisruptedNames) - 1
           /\ \A k \in 1..Len(listed) : IsName(listed[k]) <=> k % 2 = 1

\* a notification was dispatched while one line was normal and the line
\* configured after it was disrupted
C12_Witness ==
    /\ Len(sent) = 1
    /\ task[ConfigLines(variant)[1]].value.status = "normal"
    /\ task[ConfigLines(variant)[2]].value.status \in {"delayed", "suspended"}
    /\ sent[1].subject = <<SubjectPrefix(variant), LineName(ConfigLines(variant)[2])>>

\* does keyword k occur in s at position p
MatchesAt(s, p, k) == p + Len(k) - 1 <= Len(s) /\ SubSeq(s, p, p + Len(k) - 1) = k

\* the match of a RegExp alternation of literals: the leftmost position at
\* which an alternative matches, and there the first alternative that does
LeftmostMatch(alts, s) ==
    LET hits == { p \in 1..Len(s) : \E i \in 1..Len(alts) : MatchesAt(s, p, alts[i]) }
        p0 == CHOOSE p \in hits : \A q \in hits : p <= q
        i0 == CHOOSE i \in 1..Len(alts) :
                /\ MatchesAt(s, p0, alts[i])
                /\ \A j \in 1..(i - 1) : ~MatchesAt(s, p0, alts[j])
    IN alts[i0]

\* the disruption keyword the checker of line l matched in its text: the
\* first of the list the text includes (index.ts), the match of the
\* pattern (part_001)
MatchedKeyword(l) ==
    LET text == SearchedText(variant, response[l].body)
        ks == DisruptionKeywords(variant, l)
    IN IF variant = "smtp" THEN ks[FirstMatch(ks, text)] ELSE LeftmostMatch(ks, text)

\* the check of line l classified the text of its response as a disruption
ClassifiedDisrupted(l) ==
    /\ response[l].settled = "fulfilled"
    /\ Checked(l)
    /\ task[l].value.status \in {"delayed", "suspended"}

\* C13: whenever a line is classified delayed or suspended, its message
\* contains the disruption keyword that was matched, be the message a
\* fragment of the source text or the templated fallback.
C13_MessageHasKeyword ==
    \A l \in Lines :
        ClassifiedDisrupted(l) => Includes(task[l].value.message, MatchedKeyword(l))

\* the line names a subject lists
NamedIn(subject) == { LineName(l) : l \in Lines } \cap { subject[k] : k \in 1..Len(subject) }

\* C14: every notification handed to the send collaborator names at least
\* one line in its subject: whenever the send is reached the lines filtered for
\* the subject are not empty, whatever the statuses of the lines are.
C14_SubjectNamesALine ==
    /\ \A i \in 1..Len(sent) : NamedIn(sent[i].subject) # {}
    /\ pc = "sending" =>
            /\ Len(sent) = 1
            /\ DelayedLines(variant, result.lines) # <<>>

\* a notification was handed over in a run where one line is disrupted and the
\* retrieval of the other failed
C14_Witness ==
    /\ pc = "sending" /\ Len(sent) = 1
    /\ "unknown" \in Statuses(result.lines)
    /\ Cardinality(NamedIn(sent[1].subject)) = 1

====
